---- MODULE Spec2Model ----
(***************************************************************************)
(* Model of task-maker-format's UI layer (src/task-maker-format/src/ui):   *)
(* the CompilationStatus reducer, the UIMessage channel, the UI dispatch   *)
(* contract and the UIType selector.                                       *)
(***************************************************************************)
EXTENDS Naturals, Sequences, FiniteSets

\* ------------------------------------------------------------------ bounds

\* Number of messages the UI handles in the aggregator specifications.
MaxEvents == 4

\* ------------------------------------------------------------- data values

\* Option<T>: None is the empty tuple, Some(x) the one-element tuple.
None == <<>>
Some(x) == <<x>>

\* The compiled files (PathBuf coordinates) of the model.
Files == {"sol.cpp", "x.cpp"}

\* The captured texts carried by CompilationStdout / CompilationStderr.
Texts == {"", "hello"}

\* WorkerUuid values.
Workers == {7}

\* ExecutionStatus variants of task_maker_dag carried by an ExecutionResult.
ExecutionStatuses == {"Success", "ReturnCode", "TimeLimitExceeded"}

\* ExecutionResult: only its status field is read by this layer.
ExecutionResults == [status : ExecutionStatuses]

\* UIExecutionStatus, the lifecycle value carried by the events.
UIExecutionStatus ==
    {[tag |-> "Pending"], [tag |-> "Skipped"]}
        \cup [tag : {"Started"}, worker : Workers]
        \cup [tag : {"Done"}, result : ExecutionResults]

\* The UIMessage cases of the compilation of a file, and StopUI.
StopUI == [tag |-> "StopUI"]
CompilationMessages ==
    [tag : {"Compilation"}, file : Files, status : UIExecutionStatus]
        \cup [tag : {"CompilationStdout", "CompilationStderr"},
              file : Files, content : Texts]

\* CompilationStatus constructors.
Pending == [tag |-> "Pending"]
Running == [tag |-> "Running"]
Skipped == [tag |-> "Skipped"]
Done(result, stdout, stderr) ==
    [tag |-> "Done", result |-> result, stdout |-> stdout, stderr |-> stderr]
Failed(result, stdout, stderr) ==
    [tag |-> "Failed", result |-> result, stdout |-> stdout, stderr |-> stderr]

\* ------------------------------------------------------ CompilationStatus

\* Variants of apply_status with a slip, used to test the properties below.
apply_status_always_done(self, status) ==
    CASE status.tag = "Pending" -> Pending
      [] status.tag = "Started" -> Running
      [] status.tag = "Done" -> Done(status.result, None, None)
      [] status.tag = "Skipped" -> Skipped

apply_status_swapped_arms(self, status) ==
    CASE status.tag = "Pending" -> Running
      [] status.tag = "Started" -> Pending
      [] status.tag = "Done" ->
            IF status.result.status = "Success"
            THEN Done(status.result, None, None)
            ELSE Failed(status.result, None, None)
      [] status.tag = "Skipped" -> Skipped

apply_status_empty_buffers(self, status) ==
    CASE status.tag = "Pending" -> Pending
      [] status.tag = "Started" -> Running
      [] status.tag = "Done" ->
            IF status.result.status = "Success"
            THEN Done(status.result, Some(""), Some(""))
            ELSE Failed(status.result, Some(""), Some(""))
      [] status.tag = "Skipped" -> Skipped

apply_status_sticky_skipped(self, status) ==
    IF self = Skipped THEN self
    ELSE CASE status.tag = "Pending" -> Pending
           [] status.tag = "Started" -> Running
           [] status.tag = "Done" ->
                 IF status.result.status = "Success"
                 THEN Done(status.result, None, None)
                 ELSE Failed(status.result, None, None)
           [] status.tag = "Skipped" -> Skipped

\* apply_status that rejects a lifecycle event arriving after a terminal
\* status; the rejection is the value Panicked.
apply_status_strict(self, status) ==
    IF self.tag \in {"Done", "Failed", "Skipped"} THEN [tag |-> "Panicked"]
    ELSE CASE status.tag = "Pending" -> Pending
           [] status.tag = "Started" -> Running
           [] status.tag = "Done" ->
                 IF status.result.status = "Success"
                 THEN Done(status.result, None, None)
                 ELSE Failed(status.result, None, None)
           [] status.tag = "Skipped" -> Skipped

\* apply_status with the test of the result inverted.
apply_status_inverted(self, status) ==
    CASE status.tag = "Pending" -> Pending
      [] status.tag = "Started" -> Running
      [] status.tag = "Done" ->
            IF status.result.status # "Success"
            THEN Done(status.result, None, None)
            ELSE Failed(status.result, None, None)
      [] status.tag = "Skipped" -> Skipped

\* apply_status keeping the output already captured by a terminal status.
apply_status_keep_buffers(self, status) ==
    LET out == IF self.tag \in {"Done", "Failed"} THEN self.stdout ELSE None
        err == IF self.tag \in {"Done", "Failed"} THEN self.stderr ELSE None
    IN  CASE status.tag = "Pending" -> Pending
          [] status.tag = "Started" -> Running
          [] status.tag = "Done" ->
                IF status.result.status = "Success"
                THEN Done(status.result, out, err)
                ELSE Failed(status.result, out, err)
          [] status.tag = "Skipped" -> Skipped

\* CompilationStatus::apply_status: the new value of *self.
apply_status(self, status) ==
    CASE status.tag = "Pending" -> Pending
      [] status.tag = "Started" -> Running
      [] status.tag = "Done" ->
            IF status.result.status = "Success"
            THEN Done(status.result, None, None)
            ELSE Failed(status.result, None, None)
      [] status.tag = "Skipped" -> Skipped

\* apply_stdout that also resets the other buffer.
apply_stdout_clears_stderr(self, content) ==
    IF self.tag \in {"Done", "Failed"}
    THEN [self EXCEPT !.stdout = Some(content), !.stderr = None]
    ELSE self

\* apply_stdout with Option::get_or_insert in place of Option::replace.
apply_stdout_keep_first(self, content) ==
    IF self.tag \in {"Done", "Failed"}
    THEN IF self.stdout = None
         THEN [self EXCEPT !.stdout = Some(content)]
         ELSE self
    ELSE self

\* CompilationStatus::apply_stdout: the new value of *self.
apply_stdout(self, content) ==
    IF self.tag \in {"Done", "Failed"}
    THEN [self EXCEPT !.stdout = Some(content)]
    ELSE self

\* apply_stderr as a copy of apply_stdout whose field was not renamed.
apply_stderr_into_stdout(self, content) ==
    IF self.tag \in {"Done", "Failed"}
    THEN [self EXCEPT !.stdout = Some(content)]
    ELSE self

\* CompilationStatus::apply_stderr: the new value of *self.
apply_stderr(self, content) ==
    IF self.tag \in {"Done", "Failed"}
    THEN [self EXCEPT !.stderr = Some(content)]
    ELSE self

\* ------------------------------------------------------------------ UIType

UpperCase == <<"A", "B", "C", "D", "E", "F", "G", "H", "I", "J", "K", "L", "M",
               "N", "O", "P", "Q", "R", "S", "T", "U", "V", "W", "X", "Y", "Z">>
LowerCase == <<"a", "b", "c", "d", "e", "f", "g", "h", "i", "j", "k", "l", "m",
               "n", "o", "p", "q", "r", "s", "t", "u", "v", "w", "x", "y", "z">>

\* A str is the tuple of its characters.
\* u8::to_ascii_lowercase: only 'A'..='Z' are mapped.
to_ascii_lowercase_char(c) ==
    IF \E i \in DOMAIN UpperCase : UpperCase[i] = c
    THEN LowerCase[CHOOSE i \in DOMAIN UpperCase : UpperCase[i] = c]
    ELSE c

to_ascii_uppercase_char(c) ==
    IF \E i \in DOMAIN LowerCase : LowerCase[i] = c
    THEN UpperCase[CHOOSE i \in DOMAIN LowerCase : LowerCase[i] = c]
    ELSE c

\* str::to_ascii_lowercase
to_ascii_lowercase(s) == [i \in 1..Len(s) |-> to_ascii_lowercase_char(s[i])]

str_print == <<"p", "r", "i", "n", "t">>
str_raw == <<"r", "a", "w">>
str_curses == <<"c", "u", "r", "s", "e", "s">>
str_json == <<"j", "s", "o", "n">>
str_silent == <<"s", "i", "l", "e", "n", "t">>
str_unknown_ui == <<"U", "n", "k", "n", "o", "w", "n", " ", "u", "i", ":", " ">>

\* Result<UIType, String>
Ok(v) == [ok |-> TRUE, value |-> v]
Err(e) == [ok |-> FALSE, error |-> e]

\* format!("Unknown ui: {}", s)
format_unknown_ui(s) == str_unknown_ui \o s

\* from_str whose error echoes the lower-cased string it matched on.
from_str_echo_lowercase(s) ==
    LET l == to_ascii_lowercase(s)
    IN  CASE l = str_print -> Ok("Print")
          [] l = str_raw -> Ok("Raw")
          [] l = str_curses -> Ok("Curses")
          [] l = str_json -> Ok("Json")
          [] l = str_silent -> Ok("Silent")
          [] OTHER -> Err(str_unknown_ui \o l)

\* from_str matching on s itself, without lower-casing it.
from_str_case_sensitive(s) ==
    CASE s = str_print -> Ok("Print")
      [] s = str_raw -> Ok("Raw")
      [] s = str_curses -> Ok("Curses")
      [] s = str_json -> Ok("Json")
      [] s = str_silent -> Ok("Silent")
      [] OTHER -> Err(format_unknown_ui(s))

\* <UIType as FromStr>::from_str
from_str(s) ==
    LET l == to_ascii_lowercase(s)
    IN  CASE l = str_print -> Ok("Print")
          [] l = str_raw -> Ok("Raw")
          [] l = str_curses -> Ok("Curses")
          [] l = str_json -> Ok("Json")
          [] l = str_silent -> Ok("Silent")
          [] OTHER -> Err(format_unknown_ui(s))

\* ------------------------------------------------------------------ state

\* The producer threads that share the UIMessageSender.
Producers == {"p1", "p2"}

\* Number of send calls of each producer.
MaxSends == 2

\* Number of messages handled after the UI was selected (SpecSelector).
MaxSelectorEvents == 1

\* The messages the producers send in SpecChannel.
ChannelMessages ==
    {StopUI,
     [tag |-> "Compilation", file |-> "sol.cpp",
      status |-> [tag |-> "Done", result |-> [status |-> "Success"]]],
     [tag |-> "CompilationStdout", file |-> "sol.cpp", content |-> "hello"]}

VARIABLES
    selector,       \* the string given to select the UI
    parsed,         \* None until parsed, then Some(from_str(selector))
    compilations,   \* the UI's status of each file seen so far
    history,        \* per file, the events applied to its status, in order
    calls,          \* the calls made on the UI trait object, in order
    ui_pc,          \* "loop" while the dispatch loop runs, then "finished"
    queue,          \* the messages in the channel, oldest first
    receiver_alive, \* the UIChannelReceiver has not been dropped
    senders,        \* the producers that still hold the UIMessageSender
    attempts,       \* per producer, the number of send calls made
    sent,           \* per producer, the messages whose send returned Ok
    send_result,    \* per producer, the result of its last send
    received        \* the messages dequeued by the consumer, in order

uiVars == <<compilations, history, calls>>
selVars == <<selector, parsed>>
chanVars == <<ui_pc, queue, receiver_alive, senders, attempts, sent,
              send_result, received>>
vars == <<selector, parsed, compilations, history, calls, ui_pc, queue,
          receiver_alive, senders, attempts, sent, send_result, received>>

\* The part of a message that is applied to the status of its file.
EventOf(message) ==
    CASE message.tag = "Compilation" -> [kind |-> "status", status |-> message.status]
      [] message.tag = "CompilationStdout" -> [kind |-> "stdout", content |-> message.content]
      [] message.tag = "CompilationStderr" -> [kind |-> "stderr", content |-> message.content]

\* compilations.entry(file).or_insert(CompilationStatus::Pending)
EntryOrInsert(c, file) == IF file \in DOMAIN c THEN c[file] ELSE Pending

\* A handler that rebuilds the map from the file of the message alone.
ApplyMessage_clobber(c, message) ==
    LET cur == EntryOrInsert(c, message.file)
        new == CASE message.tag = "Compilation" -> apply_status(cur, message.status)
                 [] message.tag = "CompilationStdout" -> apply_stdout(cur, message.content)
                 [] message.tag = "CompilationStderr" -> apply_stderr(cur, message.content)
    IN  [f \in {message.file} |-> new]

\* The UI state's handling of one compilation message: the status of the
\* file is created as Pending when the file is new, then the message is
\* folded into it.
ApplyMessage(c, message) ==
    LET cur == EntryOrInsert(c, message.file)
        new == CASE message.tag = "Compilation" -> apply_status(cur, message.status)
                 [] message.tag = "CompilationStdout" -> apply_stdout(cur, message.content)
                 [] message.tag = "CompilationStderr" -> apply_stderr(cur, message.content)
    IN  [f \in DOMAIN c \cup {message.file} |->
            IF f = message.file THEN new ELSE c[f]]

TotalEvents == Len(history["sol.cpp"]) + Len(history["x.cpp"])

\* A UI has been instantiated from the selector.
UIReady == parsed # None /\ parsed[1].ok

\* The state once the UI named "print" was selected and the channel made.
InitChannel ==
    /\ compilations = <<>>
    /\ history = [f \in Files |-> <<>>]
    /\ calls = <<>>
    /\ ui_pc = "loop"
    /\ queue = <<>>
    /\ receiver_alive = TRUE
    /\ senders = Producers
    /\ attempts = [p \in Producers |-> 0]
    /\ sent = [p \in Producers |-> <<>>]
    /\ send_result = [p \in Producers |-> "none"]
    /\ received = <<>>

Init ==
    /\ selector = str_print
    /\ parsed = Some(from_str(selector))
    /\ InitChannel

\* UI::on_message: the UI state folds a compilation message into the status
\* of its file; the other messages leave the compilations alone.
OnMessage(message) ==
    /\ UIReady
    /\ IF message.tag \in {"Compilation", "CompilationStdout", "CompilationStderr"}
       THEN /\ compilations' = ApplyMessage(compilations, message)
            /\ history' = [history EXCEPT ![message.file] = Append(@, EventOf(message))]
       ELSE UNCHANGED <<compilations, history>>
    /\ calls' = Append(calls, "on_message")

\* The dispatch loop hands one message, sent by any producer, to the UI.
Dispatch(message) ==
    /\ TotalEvents < MaxEvents
    /\ ui_pc = "loop"
    /\ OnMessage(message)
    /\ UNCHANGED <<selVars, chanVars>>

Next == \E message \in CompilationMessages : Dispatch(message)

Spec == Init /\ [][Next]_vars

\* Lifecycle events arrive in order for a file when they form a prefix of
\* Pending, Started, (Done | Skipped).
Lifecycle(h) == SelectSeq(h, LAMBDA e : e.kind = "status")

InOrder(message) ==
    message.tag = "Compilation" =>
        LET seen == Lifecycle(history[message.file])
            last == seen[Len(seen)].status.tag
        IN  IF seen = <<>> THEN message.status.tag = "Pending"
            ELSE CASE last = "Pending" -> message.status.tag = "Started"
                   [] last = "Started" -> message.status.tag \in {"Done", "Skipped"}
                   [] OTHER -> FALSE

\* A dispatch when every producer emits the lifecycle of a file in order.
DispatchInOrder(message) == InOrder(message) /\ Dispatch(message)

NextInOrder == \E message \in CompilationMessages : DispatchInOrder(message)

SpecInOrder == Init /\ [][NextInOrder]_vars

\* ---------------------------------------------------------------- channel

\* std::sync::mpsc::Sender::send returns Ok while the Receiver exists.
SendResult_swallow(alive) == "Ok"

\* The result of self.sender.send(message).map_err(..): an error exactly
\* when the Receiver has been dropped.
SendResult(alive) == IF alive THEN "Ok" ELSE "Err"

\* A channel with one slot: a sent message replaces the undelivered ones.
Enqueue_latest(q, m) == <<m>>

\* A channel that hands out the newest message first.
Enqueue_front(q, m) == <<m>> \o q

\* The channel of UIMessageSender::new queues a sent message behind the
\* undelivered ones, with no capacity limit.
Enqueue(q, m) == Append(q, m)

\* UIMessageSender::send by producer p.
Send(p, message) ==
    /\ p \in senders
    /\ attempts[p] < MaxSends
    /\ attempts' = [attempts EXCEPT ![p] = @ + 1]
    /\ send_result' = [send_result EXCEPT ![p] = SendResult(receiver_alive)]
    /\ IF receiver_alive
       THEN LET m == [from |-> p, seq |-> attempts[p] + 1, message |-> message]
            IN  /\ queue' = Enqueue(queue, m)
                /\ sent' = [sent EXCEPT ![p] = Append(@, m)]
       ELSE UNCHANGED <<queue, sent>>
    /\ UNCHANGED <<selVars, uiVars, ui_pc, receiver_alive, senders, received>>

\* Producer p is done and drops its handle on the UIMessageSender.
DropSender(p) ==
    /\ p \in senders
    /\ senders' = senders \ {p}
    /\ UNCHANGED <<selVars, uiVars, ui_pc, queue, receiver_alive, attempts,
                   sent, send_result, received>>

\* A dispatch loop that hands StopUI to the UI like any other message.
IsStop_never(message) == FALSE

\* if let UIMessage::StopUI = message { break }
IsStop(message) == message.tag = "StopUI"

\* The dispatch loop receives a message and hands it to the UI.
RecvMessage ==
    /\ ui_pc = "loop"
    /\ queue # <<>>
    /\ ~IsStop(Head(queue).message)
    /\ received' = Append(received, Head(queue))
    /\ queue' = Tail(queue)
    /\ OnMessage(Head(queue).message)
    /\ UNCHANGED <<selVars, ui_pc, receiver_alive, senders, attempts, sent,
                   send_result>>

\* The dispatch loop receives StopUI: it leaves the loop and calls finish.
RecvStop ==
    /\ ui_pc = "loop"
    /\ queue # <<>>
    /\ IsStop(Head(queue).message)
    /\ received' = Append(received, Head(queue))
    /\ queue' = Tail(queue)
    /\ calls' = Append(calls, "finish")
    /\ ui_pc' = "finished"
    /\ UNCHANGED <<selVars, compilations, history, receiver_alive, senders,
                   attempts, sent, send_result>>

\* recv fails: the channel is empty and no sender is left. The loop ends and
\* finish is called.
RecvDisconnected ==
    /\ ui_pc = "loop"
    /\ queue = <<>>
    /\ senders = {}
    /\ calls' = Append(calls, "finish")
    /\ ui_pc' = "finished"
    /\ UNCHANGED <<selVars, compilations, history, queue, receiver_alive,
                   senders, attempts, sent, send_result, received>>

\* The consumer ends: the receiver is dropped with what is still queued.
DropReceiver ==
    /\ ui_pc = "finished"
    /\ receiver_alive
    /\ receiver_alive' = FALSE
    /\ queue' = <<>>
    /\ UNCHANGED <<selVars, uiVars, ui_pc, senders, attempts, sent,
                   send_result, received>>

NextChannel ==
    \/ \E p \in Producers : \E message \in ChannelMessages : Send(p, message)
    \/ \E p \in Producers : DropSender(p)
    \/ RecvMessage
    \/ RecvStop
    \/ RecvDisconnected
    \/ DropReceiver

SpecChannel == Init /\ [][NextChannel]_vars

\* The consumer thread runs its blocking receive loop: a queued message is
\* received unless the loop has ended.
SpecChannelFair ==
    SpecChannel /\ WF_vars(RecvMessage) /\ WF_vars(RecvStop)

\* --------------------------------------------------------------- selector

\* The names in every mixture of upper and lower case.
CaseVariants(name) ==
    {[i \in 1..Len(name) |->
        IF i \in up THEN to_ascii_uppercase_char(name[i]) ELSE name[i]] :
     up \in SUBSET (1..Len(name))}

SelectorNames == {str_print, str_raw, str_curses, str_json, str_silent}

\* Strings that name no UI.
UnknownSelectors ==
    {<<>>,
     <<"t", "u", "i">>,
     <<"T", "U", "I">>,
     <<"P", "r", "i", "n", "t", "s">>,
     <<"p", "r", "i", "n">>,
     <<"J", "S", "O", "N", " ">>,
     <<" ", "r", "a", "w">>,
     <<"R", "a", "W", "-", "U", "i">>,
     <<"S", "I", "L", "É", "N", "T">>}

Selectors == UNION {CaseVariants(name) : name \in SelectorNames} \cup UnknownSelectors

InitSelector ==
    /\ selector \in Selectors
    /\ parsed = None
    /\ InitChannel

\* The command line's selector is parsed with UIType::from_str.
ParseUI ==
    /\ parsed = None
    /\ parsed' = Some(from_str(selector))
    /\ UNCHANGED <<selector, uiVars, chanVars>>

\* The selected UI handles a message.
DispatchSelected(message) ==
    /\ TotalEvents < MaxSelectorEvents
    /\ ui_pc = "loop"
    /\ OnMessage(message)
    /\ UNCHANGED <<selVars, chanVars>>

NextSelector ==
    \/ ParseUI
    \/ \E message \in CompilationMessages : DispatchSelected(message)

SpecSelector == InitSelector /\ [][NextSelector]_vars

\* ------------------------------------------------------------- properties

\* The status of a file as the next event finds it.
StatusOf(c, f) == EntryOrInsert(c, f)
Phase(st) == st.tag
Stdout(st) == IF st.tag \in {"Done", "Failed"} THEN st.stdout ELSE None
Stderr(st) == IF st.tag \in {"Done", "Failed"} THEN st.stderr ELSE None
Outcome(st) == IF st.tag \in {"Done", "Failed"} THEN Some(st.result) ELSE None

\* This step applied an event to the status of f; Applied(f) is that event.
Stepped(f) == history'[f] # history[f]
Applied(f) == history'[f][Len(history'[f])]
Before(f) == StatusOf(compilations, f)
After(f) == compilations'[f]

StatusEvent(status) == [kind |-> "status", status |-> status]
StdoutEvent(content) == [kind |-> "stdout", content |-> content]
StderrEvent(content) == [kind |-> "stderr", content |-> content]
Success == [status |-> "Success"]

\* The phase the lifecycle value stands for.
PhaseFor(status) ==
    CASE status.tag = "Pending" -> "Pending"
      [] status.tag = "Started" -> "Running"
      [] status.tag = "Skipped" -> "Skipped"
      [] status.tag = "Done" /\ status.result.status = "Success" -> "Done"
      [] status.tag = "Done" /\ status.result.status # "Success" -> "Failed"

\* C1: apply_status is total and last-write-wins: whatever the status was,
\* a lifecycle event leaves the phase that the event alone stands for
\* (Pending, Running, Skipped, Done on Success, Failed on any other result).
C1_LastWriteWins ==
    [][\A f \in Files :
          (Stepped(f) /\ Applied(f).kind = "status") =>
              /\ Phase(After(f)) = PhaseFor(Applied(f).status)
              /\ Phase(After(f)) \in {"Done", "Failed"} =>
                    After(f).result = Applied(f).status.result]_vars

\* A failing result was applied over a Done status that held output.
C1_Witness ==
    \E f \in Files :
        /\ Len(history[f]) = 3
        /\ history[f][1] = StatusEvent([tag |-> "Done", result |-> Success])
        /\ history[f][2].kind = "stdout"
        /\ history[f][3] = StatusEvent([tag |-> "Done", result |-> [status |-> "ReturnCode"]])
        /\ compilations[f].tag = "Failed"

\* C2: a stdout/stderr fragment applied in phase Pending, Running or Skipped
\* is discarded (the status is unchanged, no buffer is set); applied in phase
\* Done or Failed it makes exactly the targeted buffer the provided text,
\* replacing any earlier value, so the buffer holds the last fragment's text.
C2_Fragments ==
    [][\A f \in Files :
          (Stepped(f) /\ Applied(f).kind \in {"stdout", "stderr"}) =>
              IF Phase(Before(f)) \in {"Pending", "Running", "Skipped"}
              THEN /\ After(f) = Before(f)
                   /\ Stdout(After(f)) = None
                   /\ Stderr(After(f)) = None
              ELSE /\ Phase(After(f)) = Phase(Before(f))
                   /\ After(f).result = Before(f).result
                   /\ Applied(f).kind = "stdout" =>
                        /\ After(f).stdout = Some(Applied(f).content)
                        /\ After(f).stderr = Before(f).stderr
                   /\ Applied(f).kind = "stderr" =>
                        /\ After(f).stderr = Some(Applied(f).content)
                        /\ After(f).stdout = Before(f).stdout]_vars

\* Two stdout fragments with different texts followed a terminal event and
\* the buffer holds the second.
C2_Witness ==
    \E f \in Files :
        /\ Len(history[f]) = 3
        /\ history[f][1].kind = "status"
        /\ history[f][2] = StdoutEvent("hello")
        /\ history[f][3] = StdoutEvent("")
        /\ compilations[f].tag \in {"Done", "Failed"}
        /\ compilations[f].stdout = Some("")

\* C5: when the lifecycle events of each file are fed in order, every step
\* keeps the phase of every file or advances it along
\* Pending -> Running -> (Done | Failed | Skipped): it never moves backwards
\* and never changes once terminal, whatever fragments and other files'
\* events are interleaved.
C5_PhaseOrder ==
    [][\A f \in Files :
          LET b == Phase(StatusOf(compilations, f))
              a == Phase(StatusOf(compilations', f))
          IN  \/ a = b
              \/ b = "Pending" /\ a = "Running"
              \/ b = "Running" /\ a \in {"Done", "Failed", "Skipped"}]_vars

\* A file went through its whole lifecycle with a fragment in between.
C5_Witness ==
    \E f \in Files :
        /\ Len(Lifecycle(history[f])) = 3
        /\ Len(history[f]) = 4
        /\ history[f][2].kind \in {"stdout", "stderr"}
        /\ compilations[f].tag = "Failed"

\* The buffer of a stream, and the places of a history where a fragment of
\* that stream follows a Done event with no lifecycle event in between.
Buffer(st, kind) == IF kind = "stdout" THEN Stdout(st) ELSE Stderr(st)
KeptFragments(h, kind) ==
    {i \in 2..Len(h) :
        /\ h[i].kind = kind
        /\ \E j \in 1..(i - 1) :
              /\ h[j].kind = "status"
              /\ h[j].status.tag = "Done"
              /\ \A k \in (j + 1)..(i - 1) : h[k].kind # "status"}

\* C6: a stdout/stderr fragment that is the first event of a file (its status
\* still the initial Pending) is dropped: the status stays Pending with no
\* buffer, and the buffer is still unset once the file is Done or Failed,
\* unless a fragment of that stream arrived after the terminal event.
C6_EarlyFragmentDropped ==
    \A f \in Files : \A kind \in {"stdout", "stderr"} :
        (history[f] # <<>> /\ history[f][1].kind = kind) =>
            /\ Len(history[f]) = 1 => compilations[f] = Pending
            /\ Lifecycle(history[f]) = <<>> => compilations[f] = Pending
            /\ KeptFragments(history[f], kind) = {} =>
                    Buffer(compilations[f], kind) = None

\* A stdout fragment came first, then the file became Done: stdout is unset.
C6_Witness ==
    \E f \in Files :
        /\ history[f] = <<StdoutEvent("hello"),
                          StatusEvent([tag |-> "Done", result |-> Success])>>
        /\ compilations[f] = Done(Success, None, None)

PendingStartedDone ==
    <<StatusEvent([tag |-> "Pending"]),
      StatusEvent([tag |-> "Started", worker |-> 7]),
      StatusEvent([tag |-> "Done", result |-> Success])>>

\* C7: after Pending, Started{worker}, Done{success} the status is Done with
\* stdout and stderr unset; a following stderr fragment with the empty text
\* makes stderr set to the empty text, which differs from unset, and leaves
\* stdout unset.
C7_Scenario ==
    \A f \in Files :
        /\ history[f] = PendingStartedDone =>
              compilations[f] = Done(Success, None, None)
        /\ history[f] = Append(PendingStartedDone, StderrEvent("")) =>
              /\ Phase(compilations[f]) = "Done"
              /\ compilations[f].stderr = Some("")
              /\ compilations[f].stderr # None
              /\ compilations[f].stdout = None

\* The four events of the scenario were applied to sol.cpp.
C7_Witness ==
    /\ history["sol.cpp"] = Append(PendingStartedDone, StderrEvent(""))
    /\ compilations["sol.cpp"].stderr = Some("")

\* C9 as stated: once the status of a file is Skipped it stays Skipped.
C9_SkippedTerminal ==
    [][\A f \in Files :
          (f \in DOMAIN compilations /\ compilations[f] = Skipped) =>
              compilations'[f] = Skipped]_vars

\* C9 amended: a Skipped status is left exactly by a Pending, Started or Done
\* lifecycle event for its file; fragments, a repeated Skipped and the events
\* of other files leave it Skipped.
C9_SkippedUntilLifecycle ==
    [][\A f \in Files :
          (f \in DOMAIN compilations /\ compilations[f] = Skipped) =>
              (compilations'[f] # Skipped <=>
                  /\ Stepped(f)
                  /\ Applied(f).kind = "status"
                  /\ Applied(f).status.tag # "Skipped")]_vars

\* A Skipped file received a fragment and then Skipped again.
C9_Witness ==
    \E f \in Files :
        /\ Len(history[f]) = 3
        /\ history[f][1] = StatusEvent([tag |-> "Skipped"])
        /\ history[f][2].kind \in {"stdout", "stderr"}
        /\ history[f][3] = StatusEvent([tag |-> "Skipped"])
        /\ compilations[f] = Skipped

\* The messages of producer p in a sequence of channel messages, in order.
FromProducer(q, p) == SelectSeq(q, LAMBDA m : m.from = p)
IsPrefix(a, b) == Len(a) <= Len(b) /\ a = SubSeq(b, 1, Len(a))

\* C3: for every producer, the messages dequeued by the consumer that came
\* from it are, in order, the first messages it sent; while the receiver
\* exists, what it sent is what was dequeued followed by what is queued.
C3_PerProducerFifo ==
    \A p \in Producers :
        /\ IsPrefix(FromProducer(received, p), sent[p])
        /\ receiver_alive => FromProducer(received \o queue, p) = sent[p]

\* Two producers' messages were dequeued alternately, two from each.
C3_Witness ==
    /\ Len(received) = 4
    /\ received[1].from # received[2].from
    /\ received[2].from # received[3].from
    /\ received[3].from # received[4].from

Count(q, x) == Len(SelectSeq(q, LAMBDA c : c = x))
StopMessages(q) == SelectSeq(q, LAMBDA m : m.message = StopUI)

\* C4: finish is called exactly once per run, when the dispatch loop ends:
\* never while the loop runs, never twice, always as the last call on the
\* UI (no on_message after it), and only after StopUI was dequeued or the
\* channel closed; dequeuing StopUI ends the loop, and every other dequeued
\* message went to on_message.
C4_FinishOnce ==
    /\ Count(calls, "finish") <= 1
    /\ ui_pc = "loop" <=> Count(calls, "finish") = 0
    /\ ui_pc = "finished" =>
          /\ Count(calls, "finish") = 1
          /\ calls[Len(calls)] = "finish"
          /\ \/ received # <<>> /\ received[Len(received)].message = StopUI
             \/ /\ senders = {}
                /\ \A p \in Producers : FromProducer(received, p) = sent[p]
    /\ (received # <<>> /\ received[Len(received)].message = StopUI) =>
          ui_pc = "finished"
    /\ Len(StopMessages(received)) <= 1
    /\ Count(calls, "on_message") = Len(received) - Len(StopMessages(received))

\* StopUI was dequeued after two other events, sent by both producers, and
\* finish has been called.
C4_Witness ==
    /\ ui_pc = "finished"
    /\ Len(received) = 3
    /\ received[3].message = StopUI
    /\ received[1].from # received[2].from
    /\ calls = <<"on_message", "on_message", "finish">>

\* Producer p made a send call in this step.
Sending(p) == attempts'[p] # attempts[p]

\* C8: send never blocks and has no capacity limit: a producer that holds
\* the sender can always send, whatever is queued; the send returns Ok,
\* queuing the message last, exactly when the receiver exists, and returns
\* an error when the receiver was dropped, leaving the channel as it was.
C8_SendNeverBlocks ==
    /\ [](\A p \in senders : attempts[p] < MaxSends =>
            \A message \in ChannelMessages : ENABLED Send(p, message))
    /\ [][\A p \in Producers : Sending(p) =>
            IF receiver_alive
            THEN /\ send_result'[p] = "Ok"
                 /\ Len(queue') = Len(queue) + 1
                 /\ SubSeq(queue', 1, Len(queue)) = queue
                 /\ queue'[Len(queue')].from = p
            ELSE /\ send_result'[p] = "Err"
                 /\ queue' = queue
                 /\ received' = received
                 /\ receiver_alive' = receiver_alive]_vars

\* A send failed after the receiver was dropped, while another producer
\* had all its sends accepted although only one message was ever dequeued.
C8_Witness ==
    /\ ~receiver_alive
    /\ Len(received) = 1
    /\ \E p \in Producers : send_result[p] = "Err"
    /\ \E p \in Producers : Len(sent[p]) = MaxSends

\* s occurs in t as a contiguous substring.
Contains(t, s) ==
    \E i \in 0..(Len(t) - Len(s)) : SubSeq(t, i + 1, i + Len(s)) = s

\* a and b are equal up to the case of their ASCII letters.
EqIgnoreAsciiCase(a, b) ==
    /\ Len(a) = Len(b)
    /\ \A i \in 1..Len(a) :
          to_ascii_lowercase_char(a[i]) = to_ascii_lowercase_char(b[i])

\* C10: a selector that equals none of print, raw, curses, json, silent when
\* compared case-insensitively parses to an error whose message contains
\* the selector exactly as given; no UI exists and no message is handled.
C10_UnknownSelector ==
    (parsed # None /\ \A name \in SelectorNames : ~EqIgnoreAsciiCase(selector, name)) =>
        /\ ~parsed[1].ok
        /\ Contains(parsed[1].error, selector)
        /\ ~UIReady
        /\ calls = <<>>
        /\ compilations = <<>>
        /\ TotalEvents = 0

\* An unknown selector with upper-case letters was parsed.
C10_Witness ==
    /\ selector = <<"P", "r", "i", "n", "t", "s">>
    /\ parsed # None
    /\ ~parsed[1].ok

\* The renderer each name stands for.
RendererOf(name) ==
    CASE name = str_print -> "Print"
      [] name = str_raw -> "Raw"
      [] name = str_curses -> "Curses"
      [] name = str_json -> "Json"
      [] name = str_silent -> "Silent"

\* C11: from_str accepts exactly the strings that equal one of print, raw,
\* curses, json, silent up to letter case, and gives each the renderer of
\* its name, whatever the case of its letters; every other string is
\* rejected.
C11_FiveNames ==
    parsed # None =>
        /\ parsed[1].ok <=>
              \E name \in SelectorNames : EqIgnoreAsciiCase(selector, name)
        /\ \A name \in SelectorNames :
              EqIgnoreAsciiCase(selector, name) =>
                  parsed[1] = Ok(RendererOf(name))
        /\ parsed[1].ok =>
              parsed[1].value \in {"Print", "Raw", "Curses", "Json", "Silent"}

\* A mixed-case spelling of json was parsed to the Json renderer.
C11_Witness ==
    /\ selector = <<"J", "s", "O", "n">>
    /\ parsed = Some(Ok("Json"))

\* C13: every lifecycle event discards the captured output: right after it
\* both buffers are unset, even when they were set before (a repeated Done
\* erases them), and a Pending that arrives after Done or Failed leaves the
\* bare Pending status, the outcome lost as well.
C13_LifecycleDiscardsOutput ==
    [][\A f \in Files :
          (Stepped(f) /\ Applied(f).kind = "status") =>
              /\ Stdout(After(f)) = None
              /\ Stderr(After(f)) = None
              /\ Applied(f).status.tag = "Pending" =>
                    /\ After(f) = Pending
                    /\ Outcome(After(f)) = None]_vars

\* A second Done arrived after stdout and stderr had been stored.
C13_Witness ==
    \E f \in Files :
        /\ Len(history[f]) = 4
        /\ history[f][1] = StatusEvent([tag |-> "Done", result |-> Success])
        /\ history[f][2] = StdoutEvent("hello")
        /\ history[f][3] = StderrEvent("hello")
        /\ history[f][4] = StatusEvent([tag |-> "Done", result |-> Success])
        /\ compilations[f] = Done(Success, None, None)

\* The status that results from applying the events h, in order, to st.
ApplyEvent(st, e) ==
    CASE e.kind = "status" -> apply_status(st, e.status)
      [] e.kind = "stdout" -> apply_stdout(st, e.content)
      [] e.kind = "stderr" -> apply_stderr(st, e.content)

RECURSIVE FoldEvents(_, _)
FoldEvents(st, h) ==
    IF h = <<>> THEN st ELSE FoldEvents(ApplyEvent(st, Head(h)), Tail(h))

\* C14: the statuses of different files are independent: a file has a
\* record exactly once an event named it, the record is the fold, from
\* Pending, of that file's own events in their order (so it is the same for
\* every interleaving with the other files' events), and a step leaves the
\* record of every file it has no event for as it was.
C14_Independent ==
    /\ [](\A f \in Files :
            /\ f \in DOMAIN compilations <=> history[f] # <<>>
            /\ f \in DOMAIN compilations =>
                  compilations[f] = FoldEvents(Pending, history[f]))
    /\ [][\A f \in Files : ~Stepped(f) =>
            /\ f \in DOMAIN compilations' <=> f \in DOMAIN compilations
            /\ f \in DOMAIN compilations =>
                  compilations'[f] = compilations[f]]_vars

\* Both files received two events each and ended in different statuses.
C14_Witness ==
    /\ Len(history["sol.cpp"]) = 2
    /\ Len(history["x.cpp"]) = 2
    /\ compilations["sol.cpp"] = Done(Success, Some("hello"), None)
    /\ compilations["x.cpp"] = Skipped

\* The values of CompilationStatus.
OptionTexts == {None} \cup {Some(t) : t \in Texts}
CompilationStatuses ==
    {Pending, Running, Skipped}
        \cup {Done(r, o, e) : r \in ExecutionResults, o \in OptionTexts, e \in OptionTexts}
        \cup {Failed(r, o, e) : r \in ExecutionResults, o \in OptionTexts, e \in OptionTexts}

\* C15: the aggregator never fails: after any sequence of lifecycle and
\* fragment events, out of order, repeated or after a terminal status, every
\* record is a CompilationStatus in one of the five phases, and every
\* further message can still be handled.
C15_NeverFails ==
    /\ \A f \in DOMAIN compilations :
          /\ compilations[f] \in CompilationStatuses
          /\ Phase(compilations[f]) \in {"Pending", "Running", "Done", "Failed", "Skipped"}
    /\ TotalEvents < MaxEvents =>
          \A message \in CompilationMessages : ENABLED Dispatch(message)

\* A file received Done twice, then Pending, then a fragment.
C15_Witness ==
    \E f \in Files :
        /\ Len(history[f]) = 4
        /\ history[f][1] = StatusEvent([tag |-> "Done", result |-> Success])
        /\ history[f][2] = StatusEvent([tag |-> "Done", result |-> Success])
        /\ history[f][3] = StatusEvent([tag |-> "Pending"])
        /\ history[f][4].kind = "stderr"
        /\ compilations[f] = Pending

\* C16: in every reachable status the phase agrees with the stored outcome:
\* Done holds a result whose status is Success, Failed one whose status is
\* not Success, whatever lifecycle and fragment events were applied.
C16_PhaseMatchesOutcome ==
    \A f \in DOMAIN compilations :
        /\ compilations[f].tag = "Done" => compilations[f].result.status = "Success"
        /\ compilations[f].tag = "Failed" => compilations[f].result.status # "Success"

\* One file is Done and the other Failed, each with a fragment stored.
C16_Witness ==
    /\ compilations = [f \in Files |->
          IF f = "sol.cpp" THEN Done(Success, Some("hello"), None)
          ELSE Failed([status |-> "TimeLimitExceeded"], None, Some(""))]

\* The place of the last lifecycle event of h, 0 when there is none.
LastLifecycle(h) ==
    IF \E i \in 1..Len(h) : h[i].kind = "status"
    THEN CHOOSE i \in 1..Len(h) :
            /\ h[i].kind = "status"
            /\ \A j \in (i + 1)..Len(h) : h[j].kind # "status"
    ELSE 0

\* The text of the last fragment of a stream after place k of h, if any.
LastFragmentAfter(h, kind, k) ==
    LET at == {i \in (k + 1)..Len(h) : h[i].kind = kind}
    IN  IF at = {} THEN None
        ELSE Some(h[CHOOSE i \in at : \A j \in at : j <= i].content)

\* The status that the suffix of h from its last lifecycle event describes.
SuffixStatus(h) ==
    LET k == LastLifecycle(h)
    IN  IF k = 0 THEN Pending
        ELSE IF PhaseFor(h[k].status) \in {"Done", "Failed"}
        THEN [tag |-> PhaseFor(h[k].status),
              result |-> h[k].status.result,
              stdout |-> LastFragmentAfter(h, "stdout", k),
              stderr |-> LastFragmentAfter(h, "stderr", k)]
        ELSE [tag |-> PhaseFor(h[k].status)]

\* C17: the status of a file is determined by the suffix of its events that
\* starts at the last lifecycle event: phase and outcome are those of that
\* event, each buffer is the text of the last fragment of its stream after
\* it when the phase is Done or Failed, and there is no buffer otherwise;
\* the events before it have no effect.
C17_SuffixDetermines ==
    \A f \in DOMAIN compilations :
        compilations[f] = SuffixStatus(history[f])

\* A fragment preceded the last lifecycle event and two followed it.
C17_Witness ==
    \E f \in Files :
        /\ history[f] = <<StdoutEvent("hello"),
                          StatusEvent([tag |-> "Done", result |-> [status |-> "ReturnCode"]]),
                          StdoutEvent("hello"),
                          StdoutEvent("")>>
        /\ compilations[f] = Failed([status |-> "ReturnCode"], Some(""), None)

\* h with its last two events exchanged.
SwapLastTwo(h) ==
    SubSeq(h, 1, Len(h) - 2) \o <<h[Len(h)], h[Len(h) - 1]>>

\* C18: a fragment changes only its own buffer: a stdout fragment leaves the
\* phase, the outcome and stderr as they were, a stderr fragment leaves the
\* phase, the outcome and stdout as they were; so when the last two events
\* of a file were a stdout and a stderr fragment, the status is the one the
\* opposite order gives.
C18_FragmentFrame ==
    /\ [][\A f \in Files :
            (Stepped(f) /\ Applied(f).kind \in {"stdout", "stderr"}) =>
                /\ Phase(After(f)) = Phase(Before(f))
                /\ Outcome(After(f)) = Outcome(Before(f))
                /\ Applied(f).kind = "stdout" => Stderr(After(f)) = Stderr(Before(f))
                /\ Applied(f).kind = "stderr" => Stdout(After(f)) = Stdout(Before(f))]_vars
    /\ [](\A f \in Files :
            LET h == history[f]
            IN  (Len(h) >= 2 /\ {h[Len(h) - 1].kind, h[Len(h)].kind} = {"stdout", "stderr"}) =>
                    compilations[f] = FoldEvents(Pending, SwapLastTwo(h)))

\* A stderr fragment and then a stdout fragment were stored after Done.
C18_Witness ==
    \E f \in Files :
        /\ history[f] = <<StatusEvent([tag |-> "Done", result |-> Success]),
                          StderrEvent(""),
                          StdoutEvent("hello")>>
        /\ compilations[f] = Done(Success, Some("hello"), Some(""))

\* The sequence q holds no message twice.
NoDuplicates(q) == \A i, j \in 1..Len(q) : q[i] = q[j] => i = j
Elements(q) == {q[i] : i \in 1..Len(q)}
AllSent == UNION {Elements(sent[p]) : p \in Producers}

\* C19: the channel neither loses, duplicates nor invents messages: no
\* message is dequeued twice, every dequeued message was accepted from its
\* producer, while the receiver exists every accepted message is either
\* dequeued or still queued, once, and while the consumer keeps receiving
\* (its loop has not ended) the queue is eventually drained for good, the
\* producers sending finitely many messages: nothing accepted stays
\* undelivered.
C19_NoLossNoDuplication ==
    /\ [](/\ NoDuplicates(received)
          /\ Elements(received) \subseteq AllSent
          /\ receiver_alive =>
                /\ NoDuplicates(received \o queue)
                /\ Elements(received \o queue) = AllSent)
    /\ <>[](queue = <<>> \/ ui_pc = "finished")

\* All the messages of both producers were accepted and dequeued.
C19_Witness ==
    /\ Len(received) = Cardinality(Producers) * MaxSends
    /\ \A p \in Producers : FromProducer(received, p) = sent[p]
    /\ queue = <<>>
    /\ ui_pc = "loop"

====
